---------------------------- MODULE Spec2Model ----------------------------
(***************************************************************************)
(* One ImageLazy instance (src/src/ImageLazy.tsx) with the two hooks it    *)
(* calls on every render: useImageBroken (src/src/hooks/useImageBroken.tsx)*)
(* and useProgressiveImage (src/src/hooks/useProgressiveImage.tsx).        *)
(*                                                                         *)
(* Every step is one callback of the browser's event loop, run to its end: *)
(* the commit of a render with its effects, a probe's onload or onerror, a *)
(* timer, an intersection event.  State setters called in a callback are   *)
(* batched, so the state after the step is the state the next render sees. *)
(***************************************************************************)
EXTENDS Naturals, Sequences, FiniteSets

\* ------------------------------------------------------------------ bounds
\* Largest retryOptions.retryCount a behaviour is configured with.
MaxRetryCount == 1
\* How often the parent changes the imgUrl prop of the instance.
MaxUrlChanges == 1
\* Image probes useImageBroken may create in one behaviour.
MaxProbes == 3
\* IntersectionObservers the loading prop's changes may create in one behaviour.
MaxObservers == 2

\* ------------------------------------------------------- program constants
\* useImageBroken.tsx:32, retryCount = 2 when the option is absent.
DefaultRetryCount == 2
\* ImageLazy.tsx:209, retries >= (retryOptions.retryCount || 2).
DefaultErrorThreshold == 2

\* The values of optimizedUrl: "" is the empty URL.
Urls == {"", "a", "b"}

VARIABLES
    phase,          \* "init": rendered, effects not yet run; "mounted"; "unmounted"
    loading,        \* prop loading: "lazy" | "eager"
    progressive,    \* prop progressive
    retryCountOpt,  \* prop retryOptions.retryCount: {} when absent, else {n}
    url,            \* optimizedUrl, the url given to both hooks
    run,            \* history: how many times the url effect has run
    shouldLoad,     \* ImageLazy state
    hasIntersected, \* ImageLazy state
    observers,      \* every IntersectionObserver created, observerRef is the last
    isHaveImg,      \* useImageBroken state: "null" | "true" | "false"
    retries,        \* useImageBroken state
    imgRef,         \* useImageBroken ref: index into probes, 0 is null
    timeoutRef,     \* useImageBroken ref: id of a timeout timer, 0 is null
    probes,         \* every Image created by attemptLoad, in creation order
    timeoutPending, \* ids of the timeout timers that are set and not cleared
    retryQ,         \* pending retry-delay timers, in the order they will fire
    isLoaded,       \* useProgressiveImage state
    pIsLoading,     \* useProgressiveImage state isLoading
    shouldShowLowQuality, \* useProgressiveImage state
    loadSeqs        \* every loadSequence() started, in creation order

vars == <<phase, loading, progressive, retryCountOpt, url, run, shouldLoad,
          hasIntersected, observers, isHaveImg, retries, imgRef, timeoutRef,
          probes, timeoutPending, retryQ, isLoaded, pIsLoading,
          shouldShowLowQuality, loadSeqs>>

compVars == <<shouldLoad, hasIntersected, observers>>
propVars == <<loading, progressive, retryCountOpt>>
brokenVars == <<isHaveImg, retries, imgRef, timeoutRef, probes, timeoutPending, retryQ>>
progVars == <<isLoaded, pIsLoading, shouldShowLowQuality, loadSeqs>>

\* ----------------------------------------------------------------- helpers
\* const { retryCount = 2 } = options
retryCount == IF retryCountOpt = {} THEN DefaultRetryCount
              ELSE CHOOSE n \in retryCountOpt : TRUE

\* A state setter of a component that is gone does nothing.
SetState(old, new) == IF phase = "unmounted" THEN old ELSE new

\* generateLowQualityPlaceholder(optimizedUrl, optimizationOptions)
generateLowQualityPlaceholder(u) == "lq_" \o u

\* lowQualityUrl without the test of the progressive prop
lowQualityUrlOf_always(u) == IF u = "" THEN "" ELSE generateLowQualityPlaceholder(u)

\* lowQualityUrl of ImageLazy; "" stands for undefined
lowQualityUrlOf(u) == IF ~progressive \/ u = "" THEN ""
                      ELSE generateLowQualityPlaceholder(u)

lowQualityUrl == lowQualityUrlOf(url)

\* The src useProgressiveImage returns to the render
progressiveSrc == IF isLoaded THEN url
                  ELSE IF lowQualityUrl # "" THEN lowQualityUrl ELSE url

\* cleanup() that leaves the handlers of the old probe in place
DetachCurrent_none(ps) == ps

\* cleanup(): the probe in imgRef loses its handlers
DetachCurrent(ps) ==
    [i \in 1..Len(ps) |-> IF i = imgRef THEN [ps[i] EXCEPT !.attached = FALSE]
                          ELSE ps[i]]

\* cleanup(): the timer in timeoutRef is cleared
ClearCurrent(ts) == ts \ {timeoutRef}

\* cleanup() as a whole; it leaves retry-delay timers alone
cleanup ==
    /\ probes' = DetachCurrent(probes)
    /\ imgRef' = 0
    /\ timeoutPending' = ClearCurrent(timeoutPending)
    /\ timeoutRef' = 0

\* attemptLoad(imageUrl, attempt), called in run r
attemptLoad(imageUrl, attempt, r) ==
    LET id == Len(probes) + 1
    IN  IF imageUrl = ""
        THEN /\ isHaveImg' = SetState(isHaveImg, "false")
             /\ UNCHANGED <<probes, imgRef, timeoutPending, timeoutRef>>
        ELSE /\ isHaveImg' = SetState(isHaveImg, "null")
             /\ probes' = Append(DetachCurrent(probes),
                                 [url |-> imageUrl, attempt |-> attempt, run |-> r,
                                  attached |-> TRUE, phase |-> "loading",
                                  timedOut |-> FALSE])
             /\ imgRef' = id
             /\ timeoutPending' = ClearCurrent(timeoutPending) \cup {id}
             /\ timeoutRef' = id

\* The url effect without its else branch: an empty url sets nothing
brokenEffect_noElse(u, r) ==
    IF u # ""
    THEN attemptLoad(u, 0, r) /\ UNCHANGED <<retries, retryQ>>
    ELSE cleanup /\ UNCHANGED <<isHaveImg, retries, retryQ>>

\* The url effect of useImageBroken for url u in run r, with the cleanup the
\* previous run of the effect returned (which attemptLoad repeats)
brokenEffect(u, r) ==
    IF u # ""
    THEN attemptLoad(u, 0, r) /\ UNCHANGED <<retries, retryQ>>
    ELSE /\ isHaveImg' = SetState(isHaveImg, "false")
         /\ cleanup
         /\ UNCHANGED <<retries, retryQ>>

\* The effect of useProgressiveImage for (highQualityUrl, lowQualityUrl)
progressiveEffect(high, low) ==
    IF high = ""
    THEN UNCHANGED progVars
    ELSE /\ pIsLoading' = TRUE
         /\ isLoaded' = FALSE
         /\ loadSeqs' = Append(loadSeqs,
                               [high |-> high, low |-> low,
                                pc |-> IF low # "" THEN "low" ELSE "high"])
         /\ UNCHANGED shouldShowLowQuality

\* The effect of ImageLazy for the loading prop l: eager sets the flags, lazy
\* creates an observer whose callback closes over the hasIntersected value h
\* of its render
lazyEffectFor(l, obs, h) ==
    IF l = "eager"
    THEN /\ shouldLoad' = TRUE
         /\ hasIntersected' = TRUE
         /\ observers' = obs
    ELSE /\ observers' = Append(obs, [state |-> "observing", closed |-> h])
         /\ UNCHANGED <<shouldLoad, hasIntersected>>

\* The effect of ImageLazy without the return of its eager branch
lazyEffect_noReturn(obs, h) ==
    IF loading = "eager"
    THEN /\ shouldLoad' = TRUE
         /\ hasIntersected' = TRUE
         /\ observers' = Append(obs, [state |-> "observing", closed |-> h])
    ELSE /\ observers' = Append(obs, [state |-> "observing", closed |-> h])
         /\ UNCHANGED <<shouldLoad, hasIntersected>>

\* The effect of ImageLazy at mount
lazyEffect(obs, h) == lazyEffectFor(loading, obs, h)

\* disconnect() forgotten
disconnectCurrent_none(obs) == obs

\* The cleanup the lazy branch of the effect returns: observerRef.current.disconnect()
disconnectCurrent(obs) ==
    [i \in 1..Len(obs) |-> IF i = Len(obs) THEN [obs[i] EXCEPT !.state = "disconnected"]
                           ELSE obs[i]]

\* --------------------------------------------------------- what is rendered
\* urlIsLoading: isLoading of useImageBroken
urlIsLoading == isHaveImg = "null"

\* retryOptions.retryCount || 2
errorThreshold == IF retryCountOpt = {} \/ retryCountOpt = {0} THEN DefaultErrorThreshold
                  ELSE CHOOSE n \in retryCountOpt : TRUE

\* The props showSkeleton and isLoading are inputs of every render and touch
\* no state, so they are parameters of the render and not variables.
shouldShowSkeleton(showSkeleton, isLoading) ==
    showSkeleton /\ (isLoading \/ urlIsLoading \/ ~shouldLoad)

\* shouldShowError with > for >=
shouldShowError_strict == shouldLoad /\ isHaveImg = "false" /\ retries > errorThreshold

shouldShowError == shouldLoad /\ isHaveImg = "false" /\ retries >= errorThreshold

\* shouldShowImage without its shouldLoad conjunct
shouldShowImage_ungated == ~shouldShowError

shouldShowImage == shouldLoad /\ ~shouldShowError

\* What ImageLazy returns: "skeleton", "error" or "image"
Render(showSkeleton, isLoading) ==
    IF shouldShowSkeleton(showSkeleton, isLoading) THEN "skeleton"
    ELSE IF shouldShowError THEN "error"
    ELSE IF shouldShowImage THEN "image"
    ELSE "skeleton"

\* optimizedFallbackUrl: optimizeImageUrl(ensureHttps(imgUrlDefault)), the
\* fallback URL the caller configured (a default is provided)
optimizedFallbackUrl == "fallback"

\* finalImageSrc without the test of the validator's result
finalImageSrc_unvalidated ==
    IF progressive /\ progressiveSrc # "" THEN progressiveSrc ELSE url

\* finalImageSrc, the src of the img element
finalImageSrc ==
    IF progressive /\ progressiveSrc # "" THEN progressiveSrc
    ELSE IF isHaveImg = "true" THEN url ELSE optimizedFallbackUrl

\* -------------------------------------------------------------------- Init
\* The first render: every useState and useRef holds its initial value.
Init ==
    /\ phase = "init"
    /\ loading \in {"lazy", "eager"}
    /\ progressive \in BOOLEAN
    /\ retryCountOpt \in {{}} \cup {{n} : n \in 0..MaxRetryCount}
    /\ url \in Urls
    /\ run = 0
    /\ shouldLoad = FALSE
    /\ hasIntersected = FALSE
    /\ observers = <<>>
    /\ isHaveImg = "null"
    /\ retries = 0
    /\ imgRef = 0
    /\ timeoutRef = 0
    /\ probes = <<>>
    /\ timeoutPending = {}
    /\ retryQ = <<>>
    /\ isLoaded = FALSE
    /\ pIsLoading = FALSE
    /\ shouldShowLowQuality = (lowQualityUrl # "")
    /\ loadSeqs = <<>>

\* ----------------------------------------------------------------- actions
\* The commit of the first render: the three effects run.
Mount ==
    /\ phase = "init"
    /\ phase' = "mounted"
    /\ run' = 1
    /\ brokenEffect(url, 1)
    /\ progressiveEffect(url, lowQualityUrl)
    /\ lazyEffect(observers, hasIntersected)
    /\ UNCHANGED <<propVars, url>>

\* The parent passes another imgUrl: optimizedUrl becomes u, and the effects
\* that depend on it run again (the effect of ImageLazy does not).
ChangeUrl(u) ==
    /\ phase = "mounted"
    /\ u # url
    /\ run <= MaxUrlChanges
    /\ u # "" => Len(probes) < MaxProbes
    /\ url' = u
    /\ run' = run + 1
    /\ brokenEffect(u, run + 1)
    /\ progressiveEffect(u, lowQualityUrlOf(u))
    /\ UNCHANGED <<phase, propVars, compVars>>

\* The instance is removed: the effects' cleanups run.
Unmount ==
    /\ phase = "mounted"
    /\ phase' = "unmounted"
    /\ cleanup
    /\ observers' = IF loading = "eager" THEN observers ELSE disconnectCurrent(observers)
    /\ UNCHANGED <<propVars, url, run, shouldLoad, hasIntersected, isHaveImg,
                   retries, retryQ, progVars>>

\* img.onload of probe p
OnLoad(p) ==
    /\ p \in 1..Len(probes)
    /\ probes[p].attached
    /\ probes[p].phase = "loading"
    /\ probes' = [probes EXCEPT ![p].phase = "loaded"]
    /\ timeoutPending' = ClearCurrent(timeoutPending)
    /\ timeoutRef' = 0
    /\ isHaveImg' = SetState(isHaveImg, "true")
    /\ retries' = SetState(retries, 0)
    /\ UNCHANGED <<phase, propVars, url, run, compVars, imgRef, retryQ, progVars>>

\* onerror without the test attempt < retryCount: every failure schedules a retry
OnError_alwaysRetry(p) ==
    /\ p \in 1..Len(probes)
    /\ probes[p].attached
    /\ probes[p].phase = "loading"
    /\ probes' = [probes EXCEPT ![p].phase = "errored"]
    /\ timeoutPending' = ClearCurrent(timeoutPending)
    /\ timeoutRef' = 0
    /\ retryQ' = Append(retryQ, [url |-> probes[p].url,
                                 attempt |-> probes[p].attempt + 1,
                                 run |-> probes[p].run])
    /\ retries' = SetState(retries, probes[p].attempt + 1)
    /\ UNCHANGED <<isHaveImg, phase, propVars, url, run, compVars, imgRef, progVars>>

\* img.onerror of probe p
OnError(p) ==
    /\ p \in 1..Len(probes)
    /\ probes[p].attached
    /\ probes[p].phase = "loading"
    /\ probes' = [probes EXCEPT ![p].phase = "errored"]
    /\ timeoutPending' = ClearCurrent(timeoutPending)
    /\ timeoutRef' = 0
    /\ IF probes[p].attempt < retryCount
       THEN /\ retryQ' = Append(retryQ, [url |-> probes[p].url,
                                         attempt |-> probes[p].attempt + 1,
                                         run |-> probes[p].run])
            /\ retries' = SetState(retries, probes[p].attempt + 1)
            /\ UNCHANGED isHaveImg
       ELSE /\ isHaveImg' = SetState(isHaveImg, "false")
            /\ retries' = SetState(retries, 0)
            /\ UNCHANGED retryQ
    /\ UNCHANGED <<phase, propVars, url, run, compVars, imgRef, progVars>>

\* The timeout timer set with probe p fires
TimeoutFires(p) ==
    /\ p \in timeoutPending
    /\ IF probes[p].attempt < retryCount
       THEN /\ retryQ' = Append(retryQ, [url |-> probes[p].url,
                                         attempt |-> probes[p].attempt + 1,
                                         run |-> probes[p].run])
            /\ retries' = SetState(retries, probes[p].attempt + 1)
            /\ probes' = [probes EXCEPT ![p].timedOut = TRUE]
            /\ timeoutPending' = timeoutPending \ {p}
            /\ UNCHANGED <<isHaveImg, imgRef, timeoutRef>>
       ELSE /\ isHaveImg' = SetState(isHaveImg, "false")
            /\ probes' = DetachCurrent([probes EXCEPT ![p].timedOut = TRUE])
            /\ imgRef' = 0
            /\ timeoutPending' = ClearCurrent(timeoutPending \ {p})
            /\ timeoutRef' = 0
            /\ UNCHANGED <<retries, retryQ>>
    /\ UNCHANGED <<phase, propVars, url, run, compVars, progVars>>

\* The oldest retry-delay timer fires: attemptLoad(imageUrl, attempt + 1).
\* All retry-delay timers have the same delay, so they fire in creation order.
RetryFires ==
    /\ retryQ # <<>>
    /\ Len(probes) < MaxProbes
    /\ attemptLoad(Head(retryQ).url, Head(retryQ).attempt, Head(retryQ).run)
    /\ retryQ' = Tail(retryQ)
    /\ UNCHANGED <<phase, propVars, url, run, compVars, retries, progVars>>

\* PLoad without setShouldShowLowQuality(false)
PLoad_keepLow(i) ==
    /\ i \in 1..Len(loadSeqs)
    /\ loadSeqs[i].pc \in {"low", "high"}
    /\ IF loadSeqs[i].pc = "low"
       THEN /\ loadSeqs' = [loadSeqs EXCEPT ![i].pc = "high"]
            /\ UNCHANGED <<isLoaded, pIsLoading>>
       ELSE /\ loadSeqs' = [loadSeqs EXCEPT ![i].pc = "done"]
            /\ isLoaded' = SetState(isLoaded, TRUE)
            /\ pIsLoading' = SetState(pIsLoading, FALSE)
    /\ UNCHANGED <<shouldShowLowQuality, phase, propVars, url, run, compVars, brokenVars>>

\* The probe of load sequence i loads: the low-quality probe is followed by
\* the high-quality one, the high-quality probe ends the sequence.
PLoad(i) ==
    /\ i \in 1..Len(loadSeqs)
    /\ loadSeqs[i].pc \in {"low", "high"}
    /\ IF loadSeqs[i].pc = "low"
       THEN /\ loadSeqs' = [loadSeqs EXCEPT ![i].pc = "high"]
            /\ UNCHANGED <<isLoaded, pIsLoading, shouldShowLowQuality>>
       ELSE /\ loadSeqs' = [loadSeqs EXCEPT ![i].pc = "done"]
            /\ isLoaded' = SetState(isLoaded, TRUE)
            /\ shouldShowLowQuality' = SetState(shouldShowLowQuality, FALSE)
            /\ pIsLoading' = SetState(pIsLoading, FALSE)
    /\ UNCHANGED <<phase, propVars, url, run, compVars, brokenVars>>

\* The probe of load sequence i fails: the promise rejects, catch and finally run.
PError(i) ==
    /\ i \in 1..Len(loadSeqs)
    /\ loadSeqs[i].pc \in {"low", "high"}
    /\ loadSeqs' = [loadSeqs EXCEPT ![i].pc = "failed"]
    /\ pIsLoading' = SetState(pIsLoading, FALSE)
    /\ UNCHANGED <<isLoaded, shouldShowLowQuality>>
    /\ UNCHANGED <<phase, propVars, url, run, compVars, brokenVars>>

\* Intersect that follows the entry: setShouldLoad(entry.isIntersecting)
Intersect_tracking(o, isIntersecting) ==
    /\ o \in 1..Len(observers)
    /\ observers[o].state = "observing"
    /\ shouldLoad' = SetState(shouldLoad, isIntersecting)
    /\ hasIntersected' = SetState(hasIntersected, isIntersecting)
    /\ UNCHANGED <<observers, phase, propVars, url, run, brokenVars, progVars>>

\* Observer o delivers an entry to its callback, whose closure holds
\* hasIntersected as it was when the observer was created.  When the state
\* hasIntersected changes, handleIntersection is a new function and the
\* effect of ImageLazy runs again: cleanup, then a new observer.
Intersect(o, isIntersecting) ==
    /\ o \in 1..Len(observers)
    /\ observers[o].state = "observing"
    /\ IF isIntersecting /\ ~observers[o].closed
       THEN /\ hasIntersected' = SetState(hasIntersected, TRUE)
            /\ shouldLoad' = SetState(shouldLoad, TRUE)
            /\ observers' =
                 IF phase = "mounted" /\ ~hasIntersected /\ loading = "lazy"
                 THEN Append(disconnectCurrent(observers),
                             [state |-> "observing", closed |-> TRUE])
                 ELSE disconnectCurrent(observers)
       ELSE UNCHANGED compVars
    /\ UNCHANGED <<phase, propVars, url, run, brokenVars, progVars>>

\* The parent passes another loading prop: the effect of ImageLazy runs
\* again, after the cleanup its lazy branch returned.
ChangeLoading(l) ==
    /\ phase = "mounted"
    /\ l # loading
    /\ l = "lazy" => Len(observers) < MaxObservers
    /\ loading' = l
    /\ lazyEffectFor(l, IF loading = "lazy" THEN disconnectCurrent(observers)
                        ELSE observers, hasIntersected)
    /\ UNCHANGED <<phase, progressive, retryCountOpt, url, run, brokenVars, progVars>>

Next ==
    \/ Mount
    \/ \E u \in Urls : ChangeUrl(u)
    \/ Unmount
    \/ \E p \in 1..Len(probes) : OnLoad(p)
    \/ \E p \in 1..Len(probes) : OnError(p)
    \/ \E p \in 1..Len(probes) : TimeoutFires(p)
    \/ RetryFires
    \/ \E i \in 1..Len(loadSeqs) : PLoad(i)
    \/ \E i \in 1..Len(loadSeqs) : PError(i)
    \/ \E o \in 1..Len(observers), b \in BOOLEAN : Intersect(o, b)

Spec == Init /\ [][Next]_vars

\* useImageBroken alone: the steps that read or write its state.
NextBroken ==
    \/ Mount
    \/ \E u \in Urls : ChangeUrl(u)
    \/ Unmount
    \/ \E p \in 1..Len(probes) : OnLoad(p)
    \/ \E p \in 1..Len(probes) : OnError(p)
    \/ \E p \in 1..Len(probes) : TimeoutFires(p)
    \/ RetryFires

SpecBroken == Init /\ [][NextBroken]_vars

\* What a render shows: useImageBroken and the visibility flag.
NextView ==
    \/ NextBroken
    \/ \E o \in 1..Len(observers), b \in BOOLEAN : Intersect(o, b)

SpecView == Init /\ [][NextView]_vars

\* The visibility flag under every kind of step: intersection events, changes
\* of the loading prop and of the url, unmount, and the callbacks of both
\* hooks.  retryCount is 0 here, so no retry-delay timer is ever set.
InitLatch == Init /\ retryCountOpt = {0}

NextLatch ==
    \/ Mount
    \/ \E u \in Urls : ChangeUrl(u)
    \/ \E l \in {"lazy", "eager"} : ChangeLoading(l)
    \/ Unmount
    \/ \E o \in 1..Len(observers), b \in BOOLEAN : Intersect(o, b)
    \/ \E p \in 1..Len(probes) : OnLoad(p)
    \/ \E p \in 1..Len(probes) : OnError(p)
    \/ \E p \in 1..Len(probes) : TimeoutFires(p)
    \/ \E i \in 1..Len(loadSeqs) : PLoad(i)
    \/ \E i \in 1..Len(loadSeqs) : PError(i)

SpecLatch == InitLatch /\ [][NextLatch]_vars

\* useProgressiveImage alone: the steps that reach its state
NextProgressive ==
    \/ Mount
    \/ \E u \in Urls : ChangeUrl(u)
    \/ Unmount
    \/ \E i \in 1..Len(loadSeqs) : PLoad(i)
    \/ \E i \in 1..Len(loadSeqs) : PError(i)

SpecProgressive == Init /\ [][NextProgressive]_vars

\* One validation of a fixed non-empty url with fixed options: the hook is
\* mounted and only its own callbacks run.  retryCount is 0 or 1, so every
\* probe the callbacks can ask for fits in MaxProbes.
InitValidation ==
    /\ Init
    /\ url # ""
    /\ retryCountOpt \in {{0}, {1}}

NextValidation ==
    \/ Mount
    \/ \E p \in 1..Len(probes) : OnLoad(p)
    \/ \E p \in 1..Len(probes) : OnError(p)
    \/ \E p \in 1..Len(probes) : TimeoutFires(p)
    \/ RetryFires

\* The mount effect runs, and every timer that stays set fires.
FairValidation ==
    /\ WF_vars(Mount)
    /\ \A p \in 1..MaxProbes : WF_vars(TimeoutFires(p))
    /\ WF_vars(RetryFires)

SpecValidation == InitValidation /\ [][NextValidation]_vars /\ FairValidation

\* ------------------------------------------------------------------ claims
\* A probe of useImageBroken that can still call a handler.
ProbeLive(p) == probes[p].attached /\ probes[p].phase = "loading"

\* No probe of useImageBroken has loaded: every attempt so far failed or is pending.
NeverLoaded == \A p \in 1..Len(probes) : probes[p].phase # "loaded"

\* A step that is a callback left behind by an earlier run of the url effect.
StaleCallback ==
    \/ \E p \in 1..Len(probes) :
          /\ probes[p].run # run
          /\ (OnLoad(p) \/ OnError(p) \/ TimeoutFires(p))
    \/ /\ retryQ # <<>>
       /\ Head(retryQ).run # run
       /\ RetryFires

\* C1: after the url changed, no callback of the superseded run (its probe's
\* onload or onerror, its timeout timer, its retry-delay timer) changes
\* isValid or retries, starts a probe, or detaches the new run's probe.
C1_NoStaleCallbackEffect ==
    [][(phase = "mounted" /\ StaleCallback) =>
          /\ isHaveImg' = isHaveImg
          /\ retries' = retries
          /\ Len(probes') = Len(probes)
          /\ \A p \in 1..Len(probes) :
                (probes[p].run = run /\ probes[p].attached) => probes'[p].attached]_vars

\* C2: once the instance is unmounted it has no pending timeout or
\* retry-delay timer and no probe in flight with handlers attached, and no
\* probe is started for it any more.
C2_UnmountReleasesEverything ==
    /\ [](phase = "unmounted" =>
            /\ retryQ = <<>>
            /\ timeoutPending = {}
            /\ \A p \in 1..Len(probes) : ~ProbeLive(p)
            /\ \A i \in 1..Len(loadSeqs) : loadSeqs[i].pc \in {"done", "failed"})
    /\ [][phase = "unmounted" =>
            /\ Len(probes') = Len(probes)
            /\ \A i \in 1..Len(loadSeqs) :
                  loadSeqs[i].pc = "low" => loadSeqs'[i].pc # "high"]_vars

\* C3: while a lazy instance has not become visible (shouldLoad is false, and
\* it never goes back to false), neither hook has started an image probe.
C3_NoProbeBeforeVisible ==
    (loading = "lazy" /\ ~shouldLoad) => (Len(probes) = 0 /\ Len(loadSeqs) = 0)

\* C4: whenever shouldLoad is false the render is the skeleton, whatever the
\* validator's result and retries and whatever the props isLoading and
\* showSkeleton are.
C4_SkeletonWhileNotVisible ==
    \A showSkeleton \in BOOLEAN, isLoading \in BOOLEAN :
        ~shouldLoad => Render(showSkeleton, isLoading) = "skeleton"

\* C4's case: not visible, skeleton switched off, the validator already Invalid.
C4_Witness ==
    /\ phase = "mounted"
    /\ ~shouldLoad
    /\ isHaveImg = "false"
    /\ url # ""
    /\ Render(FALSE, FALSE) = "skeleton"

\* C5: a visible widget (isLoading prop false, showSkeleton at its default)
\* whose url never loads renders the error placeholder once the validator
\* reports Invalid, and the skeleton before that.
C5_ErrorAfterExhaustion ==
    (phase = "mounted" /\ shouldLoad /\ url # "" /\ run = 1 /\ NeverLoaded) =>
        Render(TRUE, FALSE) = IF isHaveImg = "false" THEN "error" ELSE "skeleton"

\* C6: for a fixed non-empty url whose attempts all fail, exactly
\* retryCount + 1 probes were started when isValid is false, and every
\* emission of retries is the previous value plus one (the k-th retry emits k).
C6_ExactRetryCount ==
    /\ []((phase = "mounted" /\ run = 1 /\ url # "" /\ NeverLoaded /\ isHaveImg = "false")
            => Len(probes) = retryCount + 1)
    /\ [][(phase = "mounted" /\ run = 1 /\ run' = 1 /\ NeverLoaded'
             /\ retries' # retries /\ retries' # 0) => retries' = retries + 1]_vars

\* C7: when the failure of the last allowed attempt, by onerror or by the
\* timeout timer, sets isValid to false, retries is 0 afterwards.
C7_RetriesResetOnInvalid ==
    [][(/\ phase = "mounted"
        /\ \E p \in 1..Len(probes) :
              /\ probes[p].attempt >= retryCount
              /\ (OnError(p) \/ TimeoutFires(p))
        /\ isHaveImg' = "false") => retries' = 0]_vars

\* C8: right after the url effect has run for a non-empty url (the first
\* call included), retries is 0 and isValid is null.
C8_RestartResets ==
    [][((Mount \/ \E u \in Urls : ChangeUrl(u)) /\ url' # "") =>
          (retries' = 0 /\ isHaveImg' = "null")]_vars

\* C9: isValid is false for a non-empty current url only when each of the
\* attempts 0..retryCount of the current run for that url has failed, by
\* error or by timeout.
C9_InvalidOnlyAfterExhaustion ==
    (phase = "mounted" /\ url # "" /\ isHaveImg = "false") =>
        \A k \in 0..retryCount :
            \E p \in 1..Len(probes) :
                /\ probes[p].run = run
                /\ probes[p].url = url
                /\ probes[p].attempt = k
                /\ (probes[p].phase = "errored" \/ probes[p].timedOut)

\* C10: once isValid is true or false for a non-empty url that has not
\* changed, no timer of the run is pending, and until the url changes isValid
\* stays as it is and no probe is started.
C10_TerminalStops ==
    /\ []((phase = "mounted" /\ run = 1 /\ url # "" /\ isHaveImg # "null") =>
            (retryQ = <<>> /\ timeoutPending = {}))
    /\ [][(phase = "mounted" /\ run = 1 /\ url # "" /\ isHaveImg # "null"
             /\ url' = url /\ phase' = phase) =>
            (isHaveImg' = isHaveImg /\ Len(probes') = Len(probes))]_vars

\* C11: when the url effect runs for an empty url, isValid becomes false, no
\* probe is created, no timeout or retry-delay timer is scheduled, and
\* retries keeps its value.
C11_EmptyUrlImmediateInvalid ==
    [][((Mount \/ ChangeUrl("")) /\ url' = "") =>
          /\ isHaveImg' = "false"
          /\ Len(probes') = Len(probes)
          /\ timeoutPending' \subseteq timeoutPending
          /\ retryQ' = retryQ
          /\ retries' = retries]_vars

\* C11's case: the url became empty after an attempt for another url had failed.
C11_Witness ==
    /\ phase = "mounted"
    /\ url = ""
    /\ run = 2
    /\ isHaveImg = "false"
    /\ retries = 1
    /\ Len(probes) = 1

\* No probe of useImageBroken has completed: an attempt can end by its timeout only.
OnlyTimeouts == \A p \in 1..Len(probes) : probes[p].phase = "loading"

\* How many attempts have timed out.
TimedOutCount == Cardinality({p \in 1..Len(probes) : probes[p].timedOut})

\* The case of C12: retryCount is 2, the url is fixed and no probe completes.
TimeoutScenario ==
    phase = "mounted" /\ run = 1 /\ url # "" /\ retryCount = 2 /\ OnlyTimeouts

\* C12: with retryCount = 2 and a url whose probes never complete, the pair
\* (isValid, retries) goes (null, 0), (null, 1), (null, 2), (false, 2) and makes
\* no other change, and once isValid is false a visible widget renders the
\* error placeholder.
C12_TimeoutSequence ==
    /\ [](TimeoutScenario =>
            /\ <<isHaveImg, retries>> =
                  IF TimedOutCount = 3 THEN <<"false", 2>> ELSE <<"null", TimedOutCount>>
            /\ (isHaveImg = "false" /\ shouldLoad) => Render(TRUE, FALSE) = "error")
    /\ [][(TimeoutScenario /\ TimeoutScenario'
             /\ <<isHaveImg, retries>>' # <<isHaveImg, retries>>) =>
            <<isHaveImg, retries, isHaveImg', retries'>> \in
                {<<"null", 0, "null", 1>>, <<"null", 1, "null", 2>>,
                 <<"null", 2, "false", 2>>}]_vars

\* C12's case: the third attempt has timed out on a visible widget.
C12_Witness ==
    /\ TimeoutScenario
    /\ TimedOutCount = 3
    /\ shouldLoad
    /\ isHaveImg = "false"

\* Some observer of the instance can still deliver entries.
SomeObserving == \E o \in 1..Len(observers) : observers[o].state = "observing"

\* C13: once shouldLoad or hasIntersected is true, it is true after every
\* step: intersection events of either kind, changes of the loading prop and
\* of the url, unmount, and the callbacks of both hooks.
C13_LatchMonotonic ==
    [][(shouldLoad => shouldLoad') /\ (hasIntersected => hasIntersected')]_vars

\* C13's case: the flag is set, the loading prop has gone to eager and back to
\* lazy, the url has changed, and an observer is there to deliver more entries.
C13_Witness ==
    /\ phase = "mounted"
    /\ shouldLoad /\ hasIntersected
    /\ loading = "lazy"
    /\ run = 2
    /\ Len(observers) >= 2
    /\ SomeObserving

\* C14: in lazy mode, once the flag is set no observer of the instance is
\* observing the element.
C14_NoObserverAfterLatch ==
    (phase = "mounted" /\ loading = "lazy" /\ shouldLoad) => ~SomeObserving

\* C15: when the flag is already true, an intersection event changes neither
\* shouldLoad nor hasIntersected, nor the state of useImageBroken (isValid,
\* retries, probes, timers), nor that of useProgressiveImage.
C15_IntersectionIdempotent ==
    [][(shouldLoad /\ \E o \in 1..Len(observers), b \in BOOLEAN : Intersect(o, b)) =>
          UNCHANGED <<shouldLoad, hasIntersected, brokenVars, progVars>>]_vars

\* C15's case: the flag is true and an observer can still deliver an entry
\* while a probe of each hook is in flight.
C15_Witness ==
    /\ phase = "mounted"
    /\ shouldLoad
    /\ SomeObserving
    /\ \E p \in 1..Len(probes) : ProbeLive(p)
    /\ \E i \in 1..Len(loadSeqs) : loadSeqs[i].pc = "high"

\* C16: an instance whose loading prop is "eager" has the flag set from its
\* mount effect on and has created no IntersectionObserver.
C16_EagerBypass ==
    (loading = "eager" /\ phase # "init") =>
        (shouldLoad /\ hasIntersected /\ observers = <<>>)

\* C16's case: an eager instance after its mount effect.
C16_Witness ==
    /\ loading = "eager"
    /\ phase = "mounted"
    /\ shouldLoad
    /\ observers = <<>>

\* C17: after unmount every IntersectionObserver the instance created is
\* disconnected, so none can deliver an entry.
C17_ObserversDisconnected ==
    phase = "unmounted" =>
        \A o \in 1..Len(observers) : observers[o].state = "disconnected"

\* C17's case: a lazy instance that created two observers is unmounted.
C17_Witness ==
    /\ phase = "unmounted"
    /\ loading = "lazy"
    /\ Len(observers) >= 2

\* C18: a load sequence that leaves its low-quality probe, by load or by
\* error, goes on to the high-quality probe.
C18_LowFailureBestEffort ==
    [][\A i \in 1..Len(loadSeqs) :
          (loadSeqs[i].pc = "low" /\ loadSeqs'[i].pc # "low") =>
              loadSeqs'[i].pc = "high"]_vars

\* The hook has run once with a low-quality url and no probe has failed.
BothLoad ==
    /\ phase = "mounted"
    /\ run = 1
    /\ lowQualityUrl # ""
    /\ Len(loadSeqs) = 1
    /\ loadSeqs[1].pc # "failed"

C20_ConsistentPair ==
    (phase = "mounted" /\ lowQualityUrl # "") =>
        /\ (progressiveSrc = lowQualityUrl) <=> shouldShowLowQuality
        /\ (progressiveSrc = url) <=> ~shouldShowLowQuality

\* Load sequence i is the one the last run of the effect started for the
\* urls the hook has now.
CurrentSeq(i) ==
    /\ i = Len(loadSeqs)
    /\ loadSeqs[i].high = url
    /\ loadSeqs[i].low = lowQualityUrl

\* C21: when the high-quality probe of the current load sequence fails,
\* isLoaded is false afterwards, src is lowQualityUrl (highQualityUrl when
\* there is no lowQualityUrl) and isLoading is false.
C21_HighFailureNotReady ==
    [][\A i \in 1..Len(loadSeqs) :
          (phase = "mounted" /\ CurrentSeq(i) /\ loadSeqs[i].pc = "high" /\ PError(i)) =>
              /\ ~isLoaded'
              /\ progressiveSrc' = (IF lowQualityUrl # "" THEN lowQualityUrl ELSE url)
              /\ ~pIsLoading']_vars

C25_NoStaleCompletion ==
    /\ []((phase = "mounted" /\ isLoaded) =>
            \E i \in 1..Len(loadSeqs) : CurrentSeq(i) /\ loadSeqs[i].pc = "done")
    /\ [][\A i \in 1..Len(loadSeqs) :
            (phase = "mounted" /\ ~CurrentSeq(i) /\ (PLoad(i) \/ PError(i))) =>
                UNCHANGED <<isLoaded, shouldShowLowQuality, pIsLoading>>]_vars

C26_ThresholdMatchesBudget ==
    phase = "mounted" => errorThreshold = retryCount

\* The validation is over: isValid is true or false and no timer is pending.
ValidationDone ==
    /\ phase = "mounted"
    /\ isHaveImg # "null"
    /\ timeoutPending = {}
    /\ retryQ = <<>>

\* C27: for a fixed non-empty url and fixed options, when every timer that
\* stays set fires, the hook reaches a state where isValid is true or false
\* and no timer is pending, whichever probes load, fail or hang.
C27_ValidationTerminates == <>ValidationDone

\* C27's case: the validation ended Invalid after the probes of all attempts,
\* one of which hung until its timeout.
C27_Witness ==
    /\ ValidationDone
    /\ isHaveImg = "false"
    /\ retryCount = 1
    /\ Len(probes) >= 2
    /\ \E p \in 1..Len(probes) : probes[p].timedOut

\* C28: at most one probe of useImageBroken has its handlers attached and at
\* most one timeout timer is pending, and each belongs to the attempt started
\* last.
C28_SingleLiveAttempt ==
    /\ Cardinality({p \in 1..Len(probes) : probes[p].attached}) <= 1
    /\ Cardinality(timeoutPending) <= 1
    /\ \A p \in 1..Len(probes) : probes[p].attached => p = Len(probes)
    /\ \A t \in timeoutPending : t = Len(probes)

\* C28's case: after a url change and a retry, the third probe is the only
\* one with handlers and its timer the only one pending.
C28_Witness ==
    /\ phase = "mounted"
    /\ Len(probes) = 3
    /\ probes[3].attached
    /\ ~probes[1].attached /\ ~probes[2].attached
    /\ timeoutPending = {3}
    /\ run = 2

\* C29: retries is between 0 and retryCount in every state, under every
\* interleaving of load, error, timeout and retry-delay callbacks and under
\* url changes.
C29_RetriesBounded ==
    retries \in 0..retryCount

\* C29's case: retries has reached retryCount after the url changed.
C29_Witness ==
    /\ phase = "mounted"
    /\ run = 2
    /\ retryCount >= 1
    /\ retries = retryCount

=============================================================================
